---- MODULE Spec2Model ----
(***************************************************************************)
(* LogprobsProcessor of vllm/v1/engine/logprobs.py as a state machine.    *)
(*                                                                         *)
(* Representation.                                                         *)
(*   Optional[T]   None is {} and a present value x is {x}.                *)
(*   list objects  prompt_logprobs is a reference into heap (a sequence of *)
(*                 list contents indexed by object identity), because      *)
(*                 pop_prompt_logprobs hands the list object itself to the *)
(*                 caller.                                                 *)
(*   floats        log-probabilities are integers (exact arithmetic);      *)
(*                 confidence values and conf_grouped are held multiplied  *)
(*                 by ConfScale so that the mean of line 123 is exact.     *)
(*                 Floating-point rounding is not modelled.                *)
(***************************************************************************)
EXTENDS Integers, Sequences, FiniteSets, TLC

VARIABLES
    conf_grouped, conf_list, conf_group_list, conf_group_size, conf_threshold,
    tokenizer, logprobs, prompt_logprobs, cumulative_logprob,
    num_logprobs, num_prompt_logprobs,
    heap,          \* contents of the list objects prompt_logprobs has referred to
    op, ret, err,  \* the last call: its name, its return value, its exception
    arg,           \* the last call's arguments: for update_from_output their
                   \* Shape, for _make_logprob_dict the arguments themselves
    fed,           \* history: the sample tokens processed so far
    sample_calls,  \* history: the number of sample updates that processed a token
    appended,      \* history: every value ever placed in a prompt_logprobs list
    prompt_positions,  \* history: positions carried by the prompt updates that returned
    delivered      \* history: contents, at return time, of the lists the drains returned

fields == <<conf_grouped, conf_list, conf_group_list, conf_group_size,
            conf_threshold, tokenizer, logprobs, prompt_logprobs,
            cumulative_logprob, num_logprobs, num_prompt_logprobs>>
history == <<fed, sample_calls, appended, prompt_positions, delivered>>
vars == <<fields, heap, op, ret, err, arg, history>>

----------------------------------------------------------------------------
(* Bounds *)
MaxItems == 3       \* sample tokens and prompt positions processed in one behaviour
MaxBatch == 2       \* length of the lists of one sample step
MaxChunk == 2       \* positions of one prompt chunk
MaxW == 2           \* largest explicit window_size
MaxLen == 3         \* longest list given to _make_logprob_dict directly
MaxK == 2           \* largest num_logprobs given to _make_logprob_dict directly

(* Program constants *)
DefaultWindowSize == 2048
DefaultThreshold == 17

----------------------------------------------------------------------------
(* Optional values and small helpers *)
None == {}
Some(x) == {x}
Val(o) == CHOOSE v \in o : TRUE

Min2(a, b) == IF a <= b THEN a ELSE b

RECURSIVE SumSeq(_)
SumSeq(s) == IF s = <<>> THEN 0 ELSE Head(s) + SumSeq(Tail(s))

RECURSIVE Factorial(_)
Factorial(n) == IF n <= 1 THEN 1 ELSE n * Factorial(n - 1)

RECURSIVE Flatten(_)
Flatten(rows) == IF rows = <<>> THEN <<>> ELSE Head(rows) \o Flatten(Tail(rows))

Slice(s, from, to) ==
    \* Python s[from:to] with 0-based bounds, clipped to the list
    LET lo == from + 1
        hi == Min2(to, Len(s))
    IN  IF hi < lo THEN <<>> ELSE [i \in 1..(hi - lo + 1) |-> s[lo + i - 1]]

SeqsUpTo(S, lo, hi) == UNION {[1..n -> S] : n \in lo..hi}

----------------------------------------------------------------------------
(* Inputs *)

\* The vocabulary of the tokenizer: token id i decodes to Vocab[i].
Vocab == <<"a", "b", "c">>

\* One sampled position as the engine core reports it: the sampled token
\* first (line 107), then the top-k alternatives.
SampleTokens == {
    [ids |-> <<1>>,       lps |-> <<-1>>,         rank |-> 1],
    [ids |-> <<2, 1, 2>>, lps |-> <<-4, -1, -4>>, rank |-> 2] }

\* One prompt position: a row of each of the chunk's tensors.
PromptRows == {
    [ids |-> <<2, 1>>, lps |-> <<-2, -1>>, rank |-> 2],
    [ids |-> <<1, 1>>, lps |-> <<-1, -1>>, rank |-> 1] }

Thresholds == {2}

\* The arguments of a direct call of _make_logprob_dict: any two lists of up
\* to MaxLen items, the decoded tokens absent or one per id.
LpVals == {-2, -1}
DictIds == {1, 2}
DictArgs ==
    {[lps |-> l, ids |-> i, decoded |-> d, rank |-> r, nlp |-> n] :
        l \in SeqsUpTo(LpVals, 0, MaxLen), i \in SeqsUpTo(DictIds, 0, MaxLen),
        d \in BOOLEAN, r \in {1, MaxK + 2}, n \in (-1)..MaxK}

\* Confidence values are held as integers: value * ConfScale.  ConfScale is a
\* multiple of every number of alternatives a sample token can carry, so the
\* division of line 123 is exact.
MaxTail == CHOOSE n \in 0..MaxLen :
               /\ \A t \in SampleTokens : Len(t.lps) - 1 <= n
               /\ \E t \in SampleTokens : Len(t.lps) - 1 = n
ConfScale == Factorial(MaxTail)

----------------------------------------------------------------------------
(* The processor *)

Self == [conf_grouped |-> conf_grouped, conf_list |-> conf_list,
         conf_group_list |-> conf_group_list,
         conf_group_size |-> conf_group_size,
         conf_threshold |-> conf_threshold, tokenizer |-> tokenizer,
         logprobs |-> logprobs, prompt_logprobs |-> prompt_logprobs,
         cumulative_logprob |-> cumulative_logprob,
         num_logprobs |-> num_logprobs,
         num_prompt_logprobs |-> num_prompt_logprobs]

SetSelf(s) ==
    /\ conf_grouped' = s.conf_grouped
    /\ conf_list' = s.conf_list
    /\ conf_group_list' = s.conf_group_list
    /\ conf_group_size' = s.conf_group_size
    /\ conf_threshold' = s.conf_threshold
    /\ tokenizer' = s.tokenizer
    /\ logprobs' = s.logprobs
    /\ prompt_logprobs' = s.prompt_logprobs
    /\ cumulative_logprob' = s.cumulative_logprob
    /\ num_logprobs' = s.num_logprobs
    /\ num_prompt_logprobs' = s.num_prompt_logprobs

IsSelf(s) ==
    /\ conf_grouped = s.conf_grouped
    /\ conf_list = s.conf_list
    /\ conf_group_list = s.conf_group_list
    /\ conf_group_size = s.conf_group_size
    /\ conf_threshold = s.conf_threshold
    /\ tokenizer = s.tokenizer
    /\ logprobs = s.logprobs
    /\ prompt_logprobs = s.prompt_logprobs
    /\ cumulative_logprob = s.cumulative_logprob
    /\ num_logprobs = s.num_logprobs
    /\ num_prompt_logprobs = s.num_prompt_logprobs

\* dict.get(key, default)
Get(d, key, default) == IF key \in DOMAIN d THEN d[key] ELSE default

\* collections.deque(maxlen=n), and its append, which drops the leftmost
\* item of a full deque
deque(n) == [maxlen |-> n, items |-> <<>>]
deque_append(d, x) ==
    IF Len(d.items) >= d.maxlen
    THEN [d EXCEPT !.items = IF d.maxlen = 0 THEN <<>>
                              ELSE Append(Tail(d.items), x)]
    ELSE [d EXCEPT !.items = Append(d.items, x)]
deque_popleft(d) == [d EXCEPT !.items = Tail(d.items)]

\* (variant: the list starts empty)
first_prompt_logprobs_empty == <<>>

\* Line 78: the list a processor with prompt logprobs starts with.
first_prompt_logprobs == <<None>>

\* (variant: cumulative_logprob starts at 0 whether or not sample logprobs
\* are requested)
from_new_request_cumulative_zero(tok, request) ==
    LET sp == request.sampling_params
        nlp == sp.logprobs
        nplp == sp.prompt_logprobs
        enable == /\ sp.extra_args # None
                  /\ Get(Val(sp.extra_args), "enable_conf", FALSE)
        size == IF enable
                THEN Get(Val(sp.extra_args), "window_size", DefaultWindowSize)
                ELSE -1
    IN  [self |->
            [conf_group_size |-> size,
             conf_grouped |-> 0,
             conf_list |-> IF enable THEN Some(<<>>) ELSE None,
             conf_group_list |-> IF enable THEN Some(deque(size)) ELSE None,
             conf_threshold |->
                 IF enable
                 THEN Some(Get(Val(sp.extra_args), "threshold", DefaultThreshold))
                 ELSE None,
             tokenizer |-> tok,
             cumulative_logprob |-> Some(0),
             logprobs |-> IF nlp = None THEN None ELSE Some(<<>>),
             prompt_logprobs |-> IF nplp = None THEN None ELSE Some(1),
             num_prompt_logprobs |-> nplp,
             num_logprobs |-> nlp],
         heap |-> IF nplp = None THEN <<>> ELSE <<first_prompt_logprobs>>]

\* LogprobsProcessor.from_new_request: the new processor and the list objects
\* it allocates.
from_new_request(tok, request) ==
    LET sp == request.sampling_params
        nlp == sp.logprobs
        nplp == sp.prompt_logprobs
        enable == /\ sp.extra_args # None
                  /\ Get(Val(sp.extra_args), "enable_conf", FALSE)
        size == IF enable
                THEN Get(Val(sp.extra_args), "window_size", DefaultWindowSize)
                ELSE -1
    IN  [self |->
            [conf_group_size |-> size,
             conf_grouped |-> 0,
             conf_list |-> IF enable THEN Some(<<>>) ELSE None,
             conf_group_list |-> IF enable THEN Some(deque(size)) ELSE None,
             conf_threshold |->
                 IF enable
                 THEN Some(Get(Val(sp.extra_args), "threshold", DefaultThreshold))
                 ELSE None,
             tokenizer |-> tok,
             cumulative_logprob |-> IF nlp = None THEN None ELSE Some(0),
             logprobs |-> IF nlp = None THEN None ELSE Some(<<>>),
             prompt_logprobs |-> IF nplp = None THEN None ELSE Some(1),
             num_prompt_logprobs |-> nplp,
             num_logprobs |-> nlp],
         heap |-> IF nplp = None THEN <<>> ELSE <<first_prompt_logprobs>>]

\* convert_ids_list_to_tokens: one string per id, in order
convert_ids_list_to_tokens(tok, ids) == [i \in 1..Len(ids) |-> Some(tok[ids[i]])]

\* itertools.repeat(None), and a list of decoded tokens; ItemAt/HasItem read
\* the i-th item (1-based) of either
NONES == [repeat |-> TRUE]
Listed(s) == [repeat |-> FALSE, items |-> s]
HasItem(dec, i) == dec.repeat \/ i <= Len(dec.items)
\* (variant: without a tokenizer the decoded token is the empty string)
ItemAt_empty_string(dec, i) == IF dec.repeat THEN Some("") ELSE dec.items[i]
ItemAt(dec, i) == IF dec.repeat THEN None ELSE dec.items[i]


Logprob(lp, rank, token) == [logprob |-> lp, rank |-> rank, decoded_token |-> token]

\* (variant: the first insertion of a key is kept)
DictPut_keep_first(d, key, value) ==
    [x \in DOMAIN d \cup {key} |-> IF x \in DOMAIN d THEN d[x] ELSE value]

\* d[key] = value of a Python dict: a later insertion of a key replaces the
\* earlier one
DictPut(d, key, value) ==
    [x \in DOMAIN d \cup {key} |-> IF x = key THEN value ELSE d[x]]

\* The dict comprehension of lines 232-240 over zip(ids, logprobs, ranks,
\* decoded_tokens): zip stops at the shortest of the four.
RECURSIVE zip_dict(_, _, _, _, _, _)
zip_dict(d, i, ids, lps, ranks, dec) ==
    IF i > Len(ids) \/ i > Len(lps) \/ i > Len(ranks) \/ ~HasItem(dec, i)
    THEN d
    ELSE zip_dict(DictPut(d, ids[i], Logprob(lps[i], ranks[i], ItemAt(dec, i))),
                  i + 1, ids, lps, ranks, dec)

\* (variant: the top-k ranks stop one short, range(1, num_logprobs))
_make_logprob_dict_short_range(lps, logprob_token_ids, decoded_tokens, rank, nlp) ==
    LET n == IF nlp = -1 THEN Len(lps) ELSE nlp
        topk_ranks == IF n >= 2 THEN [i \in 1..(n - 1) |-> i] ELSE <<>>
        ranks == <<rank>> \o topk_ranks
    IN  zip_dict(<<>>, 1, logprob_token_ids, lps, ranks, decoded_tokens)

\* LogprobsProcessor._make_logprob_dict
_make_logprob_dict(lps, logprob_token_ids, decoded_tokens, rank, nlp) ==
    LET n == IF nlp = -1 THEN Len(lps) ELSE nlp
        topk_ranks == IF n >= 1 THEN [i \in 1..n |-> i] ELSE <<>>
        ranks == <<rank>> \o topk_ranks
    IN  zip_dict(<<>>, 1, logprob_token_ids, lps, ranks, decoded_tokens)

\* (variant: the mean is taken over all the entries, index 0 included)
new_conf_all_entries(lps) == (-SumSeq(lps) * ConfScale) \div Len(lps)

\* new_conf of lines 122-125, times ConfScale
new_conf(lps) ==
    IF Len(lps) > 1
    THEN (-SumSeq(Tail(lps)) * ConfScale) \div Len(Tail(lps))
    ELSE 0

\* (variant: the evicted value is not subtracted)
window_update_no_subtract(self, conf) ==
    LET d == Val(self.conf_group_list)
    IN  IF Len(d.items) < self.conf_group_size
        THEN [self EXCEPT
                 !.conf_group_list = Some(deque_append(d, conf)),
                 !.conf_grouped = @ + conf]
        ELSE [self EXCEPT
                 !.conf_group_list = Some(deque_append(deque_popleft(d), conf)),
                 !.conf_grouped = @ + conf]

\* Lines 129-135: the window and its running sum take one confidence value.
window_update(self, conf) ==
    LET d == Val(self.conf_group_list)
    IN  IF Len(d.items) < self.conf_group_size
        THEN [self EXCEPT
                 !.conf_group_list = Some(deque_append(d, conf)),
                 !.conf_grouped = @ + conf]
        ELSE [self EXCEPT
                 !.conf_group_list = Some(deque_append(deque_popleft(d), conf)),
                 !.conf_grouped = (@ - Head(d.items)) + conf]

\* Lines 121-135: the confidence bookkeeping of one sampled token.
conf_update(self, lps) ==
    IF self.conf_list # None
    THEN window_update(
             [self EXCEPT !.conf_list = Some(Append(Val(@), new_conf(lps)))],
             new_conf(lps))
    ELSE self

\* (variant: the log-probability of the first alternative is accumulated)
sample_token_top_logprob(self, rank, lps, token_ids) ==
    LET decoded_tokens ==
            IF self.tokenizer = None THEN NONES
            ELSE Listed(convert_ids_list_to_tokens(Val(self.tokenizer), token_ids))
        pos == _make_logprob_dict(lps, token_ids, decoded_tokens, rank,
                                  Val(self.num_logprobs))
    IN  conf_update(
            [self EXCEPT !.cumulative_logprob = Some(Val(@) + lps[Min2(2, Len(lps))]),
                         !.logprobs = Some(Append(Val(@), pos))],
            lps)

\* Lines 103-135: the body of the loop for one sampled token.
sample_token(self, rank, lps, token_ids) ==
    LET decoded_tokens ==
            IF self.tokenizer = None THEN NONES
            ELSE Listed(convert_ids_list_to_tokens(Val(self.tokenizer), token_ids))
        pos == _make_logprob_dict(lps, token_ids, decoded_tokens, rank,
                                  Val(self.num_logprobs))
    IN  conf_update(
            [self EXCEPT !.cumulative_logprob = Some(Val(@) + lps[1]),
                         !.logprobs = Some(Append(Val(@), pos))],
            lps)

\* The number of iterations of the loop of line 100: zip stops at the
\* shortest of the three lists.
zip_len(ll) == Min2(Len(ll.ranks), Min2(Len(ll.logprobs), Len(ll.token_ids)))

RECURSIVE sample_loop(_, _, _)
sample_loop(self, ll, i) ==
    IF i > zip_len(ll) THEN self
    ELSE sample_loop(sample_token(self, ll.ranks[i], ll.logprobs[i],
                                  ll.token_ids[i]),
                     ll, i + 1)

\* (variant: only the newest token of a step is processed)
_update_sample_logprobs_newest_only(self, logprobs_lists) ==
    IF \/ self.num_logprobs = None
       \/ self.logprobs = None
       \/ self.cumulative_logprob = None
    THEN [self |-> self, err |-> "AssertionError"]
    ELSE [self |-> sample_loop(self, logprobs_lists,
                               IF zip_len(logprobs_lists) = 0 THEN 1
                               ELSE zip_len(logprobs_lists)),
          err |-> "none"]

\* LogprobsProcessor._update_sample_logprobs
_update_sample_logprobs(self, logprobs_lists) ==
    IF \/ self.num_logprobs = None
       \/ self.logprobs = None
       \/ self.cumulative_logprob = None
    THEN [self |-> self, err |-> "AssertionError"]
    ELSE [self |-> sample_loop(self, logprobs_lists, 1), err |-> "none"]

\* Lines 170-182: the loop over the positions of a chunk; the records are
\* appended to the list object self.prompt_logprobs refers to.
RECURSIVE prompt_loop(_, _, _, _, _)
prompt_loop(lst, self, t, decoded_tokens, pos) ==
    LET num_prompt_tokens == Len(t.logprobs)
        nlps == IF t.logprobs = <<>> THEN 0 ELSE Len(t.logprobs[1])
        offset == pos * nlps
        offset_end == offset + nlps
        decoded_tokens_for_pos ==
            IF decoded_tokens = None THEN NONES
            ELSE Listed(Slice(Val(decoded_tokens), offset, offset_end))
    IN  IF pos >= num_prompt_tokens THEN lst
        ELSE prompt_loop(
                 Append(lst, Some(_make_logprob_dict(
                                      t.logprobs[pos + 1], t.token_ids[pos + 1],
                                      decoded_tokens_for_pos, t.ranks[pos + 1],
                                      Val(self.num_prompt_logprobs)))),
                 self, t, decoded_tokens, pos + 1)

\* (variant: prompt data for a processor without prompt logprobs is ignored)
_update_prompt_logprobs_tolerant(self, h, t) ==
    IF self.num_prompt_logprobs = None \/ self.prompt_logprobs = None
    THEN [heap |-> h, err |-> "none"]
    ELSE LET decoded_tokens ==
                 IF self.tokenizer = None THEN None
                 ELSE Some(convert_ids_list_to_tokens(Val(self.tokenizer),
                                                      Flatten(t.token_ids)))
             ref == Val(self.prompt_logprobs)
         IN  [heap |-> [h EXCEPT ![ref] = prompt_loop(@, self, t, decoded_tokens, 0)],
              err |-> "none"]

\* (variant: a chunk replaces the buffered records)
_update_prompt_logprobs_overwrite(self, h, t) ==
    IF self.num_prompt_logprobs = None \/ self.prompt_logprobs = None
    THEN [heap |-> h, err |-> "AssertionError"]
    ELSE LET decoded_tokens ==
                 IF self.tokenizer = None THEN None
                 ELSE Some(convert_ids_list_to_tokens(Val(self.tokenizer),
                                                      Flatten(t.token_ids)))
             ref == Val(self.prompt_logprobs)
         IN  [heap |-> [h EXCEPT ![ref] =
                           prompt_loop(<<>>, self, t, decoded_tokens, 0)],
              err |-> "none"]

\* LogprobsProcessor._update_prompt_logprobs
_update_prompt_logprobs(self, h, t) ==
    IF self.num_prompt_logprobs = None \/ self.prompt_logprobs = None
    THEN [heap |-> h, err |-> "AssertionError"]
    ELSE LET decoded_tokens ==
                 IF self.tokenizer = None THEN None
                 ELSE Some(convert_ids_list_to_tokens(Val(self.tokenizer),
                                                      Flatten(t.token_ids)))
             ref == Val(self.prompt_logprobs)
         IN  [heap |-> [h EXCEPT ![ref] = prompt_loop(@, self, t, decoded_tokens, 0)],
              err |-> "none"]

\* (variant: the prompt update runs first)
update_result_prompt_first(self, h, output) ==
    LET p == IF output.new_prompt_logprobs_tensors # None
             THEN _update_prompt_logprobs(self, h,
                                          Val(output.new_prompt_logprobs_tensors))
             ELSE [heap |-> h, err |-> "none"]
        s == IF p.err = "none" /\ output.new_logprobs # None
             THEN _update_sample_logprobs(self, Val(output.new_logprobs))
             ELSE [self |-> self, err |-> p.err]
    IN  [self |-> s.self, heap |-> p.heap, err |-> s.err]

\* LogprobsProcessor.update_from_output as a function of the state: the
\* sample update runs first and an exception ends the call.
update_result(self, h, output) ==
    LET s == IF output.new_logprobs # None
             THEN _update_sample_logprobs(self, Val(output.new_logprobs))
             ELSE [self |-> self, err |-> "none"]
        p == IF s.err = "none" /\ output.new_prompt_logprobs_tensors # None
             THEN _update_prompt_logprobs(s.self, h,
                                          Val(output.new_prompt_logprobs_tensors))
             ELSE [heap |-> h, err |-> s.err]
    IN  [self |-> s.self, heap |-> p.heap, err |-> p.err]

\* (variant: a drain also forgets the sample logprobs)
pop_result_forget_all(self, h) ==
    LET plp == self.prompt_logprobs
        forgot == [self EXCEPT !.logprobs = IF @ = None THEN None ELSE Some(<<>>)]
    IN  IF plp # None /\ h[Val(plp)] # <<>>
        THEN [self |-> [forgot EXCEPT !.prompt_logprobs = Some(Len(h) + 1)],
              heap |-> Append(h, <<>>), ret |-> plp]
        ELSE [self |-> forgot, heap |-> h, ret |-> plp]

\* (variant: the list is returned and kept)
pop_result_keep(self, h) ==
    [self |-> self, heap |-> h, ret |-> self.prompt_logprobs]

\* (variant: a list of one element is returned and kept)
pop_result_lazy(self, h) ==
    LET plp == self.prompt_logprobs
    IN  IF plp # None /\ Len(h[Val(plp)]) > 1
        THEN [self |-> [self EXCEPT !.prompt_logprobs = Some(Len(h) + 1)],
              heap |-> Append(h, <<>>), ret |-> plp]
        ELSE [self |-> self, heap |-> h, ret |-> plp]

\* (variant: a drain leaves prompt_logprobs None)
pop_result_disable(self, h) ==
    LET plp == self.prompt_logprobs
    IN  IF plp # None /\ h[Val(plp)] # <<>>
        THEN [self |-> [self EXCEPT !.prompt_logprobs = None],
              heap |-> h, ret |-> plp]
        ELSE [self |-> self, heap |-> h, ret |-> plp]

\* LogprobsProcessor.pop_prompt_logprobs as a function of the state: `if plp`
\* holds for a list that is not empty, and `[]` is a new list object.
pop_result(self, h) ==
    LET plp == self.prompt_logprobs
    IN  IF plp # None /\ h[Val(plp)] # <<>>
        THEN [self |-> [self EXCEPT !.prompt_logprobs = Some(Len(h) + 1)],
              heap |-> Append(h, <<>>), ret |-> plp]
        ELSE [self |-> self, heap |-> h, ret |-> plp]

\* (variant: a window that is not full can trigger)
conf_stop_partial(self) ==
    IF self.conf_group_list = None \/ Len(Val(self.conf_group_list).items) = 0
    THEN FALSE
    ELSE self.conf_grouped <
            Val(self.conf_threshold) * ConfScale
                * Len(Val(self.conf_group_list).items)

\* LogprobsProcessor.check_conf_stop as a function of the state.  The
\* quotient conf_grouped / len is compared exactly: both sides are multiplied
\* by the (positive) window length, and the threshold by ConfScale.
conf_stop(self) ==
    IF self.conf_group_list = None \/ Len(Val(self.conf_group_list).items) = 0
    THEN FALSE
    ELSE /\ Len(Val(self.conf_group_list).items) >= self.conf_group_size
         /\ self.conf_grouped <
                Val(self.conf_threshold) * ConfScale
                    * Len(Val(self.conf_group_list).items)

----------------------------------------------------------------------------
(* The inputs of the operations *)

Tokenizers == {None, Some(Vocab)}
Request(n, p, e) ==
    [sampling_params |-> [logprobs |-> n, prompt_logprobs |-> p, extra_args |-> e]]
Windowed(w, t) == Some([enable_conf |-> TRUE, window_size |-> w, threshold |-> t])

\* Every combination of the three features on and off.
Requests ==
    {Request(n, p, e) :
        n \in {None, Some(1)}, p \in {None, Some(1)},
        e \in {None} \cup {Windowed(MaxW, t) : t \in Thresholds}}

\* Sample logprobs on, prompt logprobs off, every form of extra_args.
SampleRequests ==
    {Request(n, None, e) :
        n \in {Some(-1), Some(0), Some(1)},
        e \in {None, Some([enable_conf |-> FALSE]), Some([enable_conf |-> TRUE])}
              \cup {Windowed(w, t) : w \in 1..MaxW, t \in Thresholds}}

\* Prompt logprobs on, sample logprobs and the confidence window off.
PromptRequests ==
    {Request(None, p, None) : p \in {Some(-1), Some(0), Some(1)}}

Prefix(s, n) == SubSeq(s, 1, n)

\* LogprobsLists: three lists, one item per sampled token.  Besides the
\* well-formed steps the set holds the steps with one list a token short.
LogprobsListsOf(ts, a, b, c) ==
    [token_ids |-> Prefix([i \in 1..Len(ts) |-> ts[i].ids], a),
     logprobs  |-> Prefix([i \in 1..Len(ts) |-> ts[i].lps], b),
     ranks     |-> Prefix([i \in 1..Len(ts) |-> ts[i].rank], c)]
SampleSteps ==
    UNION {{LogprobsListsOf(ts, Len(ts), Len(ts), Len(ts))}
           \cup {LogprobsListsOf(ts, Len(ts) - 1, Len(ts), Len(ts)) : x \in {y \in {1} : Len(ts) > 0}}
           \cup {LogprobsListsOf(ts, Len(ts), Len(ts) - 1, Len(ts)) : x \in {y \in {1} : Len(ts) > 0}}
           \cup {LogprobsListsOf(ts, Len(ts), Len(ts), Len(ts) - 1) : x \in {y \in {1} : Len(ts) > 0}}
           : ts \in SeqsUpTo(SampleTokens, 0, MaxBatch)}

Mismatched(ll) ==
    ~(Len(ll.token_ids) = Len(ll.logprobs) /\ Len(ll.logprobs) = Len(ll.ranks))

\* LogprobsTensors: three tensors of the same number of rows.
PromptChunks ==
    {[token_ids |-> [i \in 1..Len(rs) |-> rs[i].ids],
      logprobs  |-> [i \in 1..Len(rs) |-> rs[i].lps],
      ranks     |-> [i \in 1..Len(rs) |-> rs[i].rank]] :
        rs \in SeqsUpTo(PromptRows, 0, MaxChunk)}

\* EngineCoreOutput: each part is optional.  A step carries sample data,
\* prompt data, neither, or one sampled token together with a chunk of one
\* position.
EngineCoreOutput(l, t) == [new_logprobs |-> l, new_prompt_logprobs_tensors |-> t]
Outputs ==
    {EngineCoreOutput(None, None)}
    \cup {EngineCoreOutput(Some(x), None) : x \in SampleSteps}
    \cup {EngineCoreOutput(None, Some(x)) : x \in PromptChunks}
    \cup {EngineCoreOutput(Some(x), Some(y)) :
             x \in {z \in SampleSteps : ~Mismatched(z) /\ Len(z.ranks) = 1},
             y \in {z \in PromptChunks : Len(z.ranks) = 1}}

\* The shape of a step: for the sample data it carries, the number of tokens
\* zip pairs up and whether the three lists differ in length; for the prompt
\* data it carries, the number of positions.
Shape(output) ==
    [new_logprobs |->
        IF output.new_logprobs = None THEN None
        ELSE Some([tokens |-> zip_len(Val(output.new_logprobs)),
                   mismatched |-> Mismatched(Val(output.new_logprobs))]),
     new_prompt_logprobs_tensors |->
        IF output.new_prompt_logprobs_tensors = None THEN None
        ELSE Some(Len(Val(output.new_prompt_logprobs_tensors).ranks))]

\* The number of tokens and positions a step carries.
Size(output) ==
    (IF output.new_logprobs = None THEN 0
     ELSE zip_len(Val(output.new_logprobs)))
    + (IF output.new_prompt_logprobs_tensors = None THEN 0
       ELSE Len(Val(output.new_prompt_logprobs_tensors).ranks))

\* The tokens a sample step makes the loop of line 100 process.
Processed(ll) ==
    [i \in 1..zip_len(ll) |->
        [ids |-> ll.token_ids[i], lps |-> ll.logprobs[i], rank |-> ll.ranks[i]]]

\* The list prompt_logprobs refers to (only when it is not None).
Buffer == heap[Val(prompt_logprobs)]

\* The number of tokens and positions processed so far.
Items == Len(fed) + Len(SelectSeq(appended, LAMBDA x : x # None))

----------------------------------------------------------------------------
(* The state machine *)

InitFrom(requests) ==
    \E tok \in Tokenizers, request \in requests :
        LET new == from_new_request(tok, request)
        IN  /\ IsSelf(new.self)
            /\ heap = new.heap
            /\ op = "from_new_request" /\ ret = None /\ err = "none"
            /\ arg = None
            /\ fed = <<>> /\ sample_calls = 0
            /\ appended = Flatten(new.heap)
            /\ prompt_positions = 0
            /\ delivered = <<>>

Init == InitFrom(Requests)
InitSample == InitFrom(SampleRequests)
InitPrompt == InitFrom(PromptRequests)

\* update_from_output(output)
update_from_output(output) ==
    LET r == update_result(Self, heap, output)
        sampled == IF output.new_logprobs # None /\ logprobs # None
                   THEN Processed(Val(output.new_logprobs)) ELSE <<>>
        added == IF prompt_logprobs = None THEN <<>>
                 ELSE SubSeq(r.heap[Val(prompt_logprobs)],
                             Len(Buffer) + 1, Len(r.heap[Val(prompt_logprobs)]))
    IN  /\ Items + Size(output) <= MaxItems
        /\ SetSelf(r.self)
        /\ heap' = r.heap
        /\ op' = "update_from_output" /\ ret' = None /\ err' = r.err
        /\ fed' = fed \o sampled
        /\ sample_calls' = IF sampled = <<>> THEN sample_calls
                           ELSE sample_calls + 1
        /\ appended' = appended \o added
        /\ prompt_positions' =
              IF r.err = "none" /\ output.new_prompt_logprobs_tensors # None
              THEN prompt_positions
                     + Len(Val(output.new_prompt_logprobs_tensors).ranks)
              ELSE prompt_positions
        /\ arg' = Some(Shape(output))
        /\ UNCHANGED delivered

\* pop_prompt_logprobs()
pop_prompt_logprobs ==
    LET r == pop_result(Self, heap)
    IN  /\ SetSelf(r.self)
        /\ heap' = r.heap
        /\ op' = "pop_prompt_logprobs" /\ ret' = r.ret /\ err' = "none"
        /\ arg' = None
        /\ delivered' = IF r.ret = None THEN delivered
                        ELSE delivered \o heap[Val(r.ret)]
        /\ UNCHANGED <<fed, sample_calls, appended, prompt_positions>>

\* (variant: a query that triggers starts a new window)
check_conf_stop_restart ==
    /\ op' = "check_conf_stop" /\ ret' = conf_stop(Self) /\ err' = "none"
    /\ arg' = None
    /\ IF conf_stop(Self)
       THEN /\ conf_group_list' = Some(deque(conf_group_size))
            /\ conf_grouped' = 0
       ELSE UNCHANGED <<conf_group_list, conf_grouped>>
    /\ UNCHANGED <<conf_list, conf_group_size, conf_threshold, tokenizer,
                   logprobs, prompt_logprobs, cumulative_logprob, num_logprobs,
                   num_prompt_logprobs, heap, history>>

\* check_conf_stop()
check_conf_stop ==
    /\ op' = "check_conf_stop" /\ ret' = conf_stop(Self) /\ err' = "none"
    /\ arg' = None
    /\ UNCHANGED <<fields, heap, history>>

Next ==
    \/ \E output \in Outputs : update_from_output(output)
    \/ pop_prompt_logprobs
    \/ check_conf_stop

Spec == Init /\ [][Next]_vars

\* _make_logprob_dict alone: Init draws the arguments, the action applies
\* the function.
InitDict ==
    /\ IsSelf(from_new_request(None, Request(None, None, None)).self)
    /\ heap = <<>>
    /\ op = "from_new_request" /\ ret = None /\ err = "none"
    /\ arg \in {Some(a) : a \in DictArgs}
    /\ fed = <<>> /\ sample_calls = 0 /\ appended = <<>> /\ delivered = <<>>
    /\ prompt_positions = 0

make_logprob_dict ==
    LET a == Val(arg)
        decoded_tokens == IF a.decoded
                          THEN Listed(convert_ids_list_to_tokens(Vocab, a.ids))
                          ELSE NONES
    IN  /\ op = "from_new_request"
        /\ op' = "_make_logprob_dict"
        /\ ret' = _make_logprob_dict(a.lps, a.ids, decoded_tokens, a.rank, a.nlp)
        /\ UNCHANGED <<fields, heap, err, arg, history>>

NextDict == make_logprob_dict

SpecDict == InitDict /\ [][NextDict]_vars
SpecSample == InitSample /\ [][Next]_vars
SpecPrompt == InitPrompt /\ [][Next]_vars

----------------------------------------------------------------------------
(* Properties *)

\* The confidence values of the tokens processed so far, times ConfScale.
FedConf == [i \in 1..Len(fed) |-> new_conf(fed[i].lps)]
LastN(s, n) == SubSeq(s, Len(s) - n + 1, Len(s))
Window == Val(conf_group_list).items
LastArg == Val(arg)

C2_StopIff ==
    op = "check_conf_stop" =>
        /\ ret <=> /\ conf_group_list # None
                   /\ Len(Window) = conf_group_size
                   /\ conf_grouped <
                          Val(conf_threshold) * ConfScale * Len(Window)
        /\ (conf_group_list = None \/ Len(fed) < conf_group_size) => ret = FALSE

C2_Witness ==
    /\ op = "check_conf_stop"
    /\ ret = TRUE
    /\ Len(fed) > conf_group_size

\* C3: with sample logprobs enabled, after n sample updates of one token each
\* logprobs has n records and cumulative_logprob is the sum of the first
\* log-probability of each of the n tokens.
C3_SampleTotals ==
    (logprobs # None /\ sample_calls = Len(fed)) =>
        /\ Len(Val(logprobs)) = sample_calls
        /\ Val(cumulative_logprob) = SumSeq([i \in 1..Len(fed) |-> fed[i].lps[1]])

C3_Witness ==
    /\ logprobs # None
    /\ sample_calls = Len(fed)
    /\ Len(fed) >= 2
    /\ fed[1] # fed[2]

\* C4: the values the drains have returned so far, followed by the values
\* still buffered, are exactly the values ever buffered, in the order they
\* were appended: none is returned twice and none is lost.
C4_ExactlyOnce ==
    prompt_logprobs # None => delivered \o Buffer = appended

C4_Witness ==
    /\ prompt_logprobs # None
    /\ Val(prompt_logprobs) >= 3
    /\ Len(delivered) >= 2
    /\ Buffer # <<>>

\* C5 as stated: in every state with prompt logprobs enabled the first element
\* of prompt_logprobs, when there is one, is None.
C5_FirstAlwaysAbsent ==
    (prompt_logprobs # None /\ Buffer # <<>>) => Buffer[1] = None

\* C5 amended: until the first drain, prompt_logprobs is not empty and its
\* first element is None, whatever prompt updates were applied; at any time
\* the first value ever buffered is None.
C5_FirstAbsentUntilDrain ==
    prompt_logprobs # None =>
        /\ appended # <<>> /\ appended[1] = None
        /\ delivered = <<>> => (Buffer # <<>> /\ Buffer[1] = None)

C5_Witness ==
    /\ prompt_logprobs # None
    /\ delivered = <<>>
    /\ Len(Buffer) >= 2

\* C6 as stated: a sample update whose three lists differ in length fails.
C6_MismatchFails ==
    (/\ op = "update_from_output"
     /\ LastArg.new_logprobs # None
     /\ Val(LastArg.new_logprobs).mismatched) => err # "none"

\* C7: a drain of an enabled processor returns the list that was buffered,
\* with its contents, and leaves an empty buffer; a drain that follows a drain
\* returns an empty list.
C7_DrainTwice ==
    [][(op' = "pop_prompt_logprobs" /\ prompt_logprobs # None) =>
          /\ ret' = prompt_logprobs
          /\ heap'[Val(ret')] = Buffer
          /\ heap'[Val(prompt_logprobs')] = <<>>
          /\ op = "pop_prompt_logprobs" => heap'[Val(ret')] = <<>>]_vars

C7_Witness ==
    /\ op = "pop_prompt_logprobs"
    /\ prompt_logprobs # None
    /\ ret = prompt_logprobs
    /\ Len(delivered) >= 2

\* C8: pop_prompt_logprobs returns None exactly when prompt logprobs were
\* disabled at construction; num_prompt_logprobs never changes and an enabled
\* processor keeps a list, to which the prompt updates after a drain append.
C8_NoneIffDisabled ==
    /\ [](/\ prompt_logprobs = None <=> num_prompt_logprobs = None
          /\ op = "pop_prompt_logprobs" =>
                (ret = None <=> num_prompt_logprobs = None)
          /\ (/\ op = "update_from_output"
              /\ num_prompt_logprobs # None
              /\ LastArg.new_prompt_logprobs_tensors # None
              /\ err = "none") =>
                Len(Buffer) >= Val(LastArg.new_prompt_logprobs_tensors))
    /\ [][num_prompt_logprobs' = num_prompt_logprobs]_vars

C8_Witness ==
    /\ op = "update_from_output"
    /\ num_prompt_logprobs # None
    /\ LastArg.new_prompt_logprobs_tensors # None
    /\ delivered # <<>>
    /\ Buffer # <<>>

\* The number of entries zip pairs up in _make_logprob_dict for arguments a.
Zipped(a) ==
    LET k == IF a.nlp = -1 THEN Len(a.lps) ELSE a.nlp
    IN  Min2(Len(a.ids), Min2(Len(a.lps), 1 + k))

\* C9: when the id at index 0 is also the id at top-k position j (and at no
\* later position), the entry of that id has rank j and the log-probability
\* of position j.
C9_LaterInsertionWins ==
    op = "_make_logprob_dict" =>
        \A j \in 1..(Zipped(LastArg) - 1) :
            (/\ LastArg.ids[j + 1] = LastArg.ids[1]
             /\ \A i \in (j + 2)..Zipped(LastArg) : LastArg.ids[i] # LastArg.ids[1])
            => /\ ret[LastArg.ids[1]].rank = j
               /\ ret[LastArg.ids[1]].logprob = LastArg.lps[j + 1]

C9_Witness ==
    /\ op = "_make_logprob_dict"
    /\ Zipped(LastArg) >= 3
    /\ LastArg.ids[2] = LastArg.ids[1]
    /\ LastArg.ids[3] # LastArg.ids[1]
    /\ LastArg.rank # 1
    /\ LastArg.lps[2] # LastArg.lps[1]
    /\ ret[LastArg.ids[1]].rank = 1

\* C10: update_from_output fails when it carries sample data for a processor
\* without sample logprobs or prompt data for one without prompt logprobs.
C10_DisabledFails ==
    (/\ op = "update_from_output"
     /\ \/ LastArg.new_logprobs # None /\ num_logprobs = None
        \/ LastArg.new_prompt_logprobs_tensors # None /\ num_prompt_logprobs = None)
    => err = "AssertionError"

C10_Witness ==
    /\ op = "update_from_output"
    /\ LastArg.new_prompt_logprobs_tensors # None
    /\ num_prompt_logprobs = None
    /\ LastArg.new_logprobs # None
    /\ num_logprobs # None
    /\ err = "AssertionError"


\* Which of the optional fields are None.
Absent ==
    [logprobs |-> logprobs = None,
     cumulative_logprob |-> cumulative_logprob = None,
     num_logprobs |-> num_logprobs = None,
     prompt_logprobs |-> prompt_logprobs = None,
     num_prompt_logprobs |-> num_prompt_logprobs = None,
     conf_list |-> conf_list = None,
     conf_group_list |-> conf_group_list = None,
     conf_threshold |-> conf_threshold = None]

\* C11: the fields of a feature are all None or all present (logprobs,
\* cumulative_logprob and num_logprobs; prompt_logprobs and
\* num_prompt_logprobs; conf_list, conf_group_list and conf_threshold), and
\* no step changes which fields are None.
C11_FeatureBundles ==
    /\ [](/\ Absent.logprobs = Absent.num_logprobs
          /\ Absent.cumulative_logprob = Absent.num_logprobs
          /\ Absent.prompt_logprobs = Absent.num_prompt_logprobs
          /\ Absent.conf_group_list = Absent.conf_list
          /\ Absent.conf_threshold = Absent.conf_list)
    /\ [][Absent' = Absent]_vars

C11_Witness ==
    /\ op = "pop_prompt_logprobs"
    /\ num_prompt_logprobs # None
    /\ Len(delivered) >= 2
    /\ num_logprobs # None
    /\ Len(fed) >= 1
    /\ conf_list = None


\* The record of position i of a chunk, decoded position by position.
PositionRecord(chunk, i) ==
    Some(_make_logprob_dict(
             chunk.logprobs[i], chunk.token_ids[i],
             IF tokenizer = None THEN NONES
             ELSE Listed(convert_ids_list_to_tokens(Val(tokenizer),
                                                    chunk.token_ids[i])),
             chunk.ranks[i], Val(num_prompt_logprobs)))

\* C12: a prompt update with p positions appends the p position records, in
\* position order, to the end of the same list and leaves the elements
\* already in it unchanged; with no drain since construction the list has
\* one element more than the positions carried so far.
C12_PromptAccumulates ==
    /\ []((prompt_logprobs # None /\ delivered = <<>>) =>
             Len(Buffer) = 1 + prompt_positions)
    /\ [][\A chunk \in PromptChunks :
             (/\ op' = "update_from_output"
              /\ prompt_logprobs # None
              /\ arg' = Some(Shape(EngineCoreOutput(None, Some(chunk))))
              /\ update_from_output(EngineCoreOutput(None, Some(chunk))))
             => /\ err' = "none"
                /\ prompt_logprobs' = prompt_logprobs
                /\ Len(Buffer') = Len(Buffer) + Len(chunk.ranks)
                /\ SubSeq(Buffer', 1, Len(Buffer)) = Buffer
                /\ \A i \in 1..Len(chunk.ranks) :
                      Buffer'[Len(Buffer) + i] = PositionRecord(chunk, i)]_vars

C12_Witness ==
    /\ prompt_logprobs # None
    /\ delivered = <<>>
    /\ op = "update_from_output"
    /\ Len(Buffer) >= 3
    /\ Buffer[2] # Buffer[3]


\* C13: a check_conf_stop step changes no field of the processor and no list,
\* and a query that follows a query returns the same result.
C13_StopQueryIsPure ==
    [][op' = "check_conf_stop" =>
          /\ fields' = fields
          /\ heap' = heap
          /\ op = "check_conf_stop" => ret' = ret]_vars

C13_Witness ==
    /\ op = "check_conf_stop"
    /\ conf_group_list # None
    /\ Len(Window) = conf_group_size
    /\ ret = FALSE


\* The entries of a position record all have decoded_token None.
Undecoded(record) == \A id \in DOMAIN record : record[id].decoded_token = None

\* C14: in a processor without a tokenizer, every entry of every position
\* record in logprobs and of every position record ever placed in
\* prompt_logprobs has decoded_token None.
C14_NoTokenizerNoText ==
    tokenizer = None =>
        /\ logprobs # None =>
              \A i \in 1..Len(Val(logprobs)) : Undecoded(Val(logprobs)[i])
        /\ \A i \in 1..Len(appended) :
              appended[i] # None => Undecoded(Val(appended[i]))
        /\ \A l \in 1..Len(heap) : \A i \in 1..Len(heap[l]) :
              heap[l][i] # None => Undecoded(Val(heap[l][i]))

C14_Witness ==
    /\ tokenizer = None
    /\ logprobs # None
    /\ Len(Val(logprobs)) >= 1
    /\ Len(appended) >= 2
    /\ delivered # <<>>


\* The number of supplied entries a record is built from: with k >= 0 the
\* first min(len(ids), len(logprobs), k + 1), with k = -1 all the pairs.
Used(a) ==
    IF a.nlp = -1 THEN Min2(Len(a.ids), Len(a.lps))
    ELSE Min2(Len(a.ids), Min2(Len(a.lps), a.nlp + 1))

\* C15: the record has exactly the ids of the first Used entries; the entry of
\* an id comes from the last of these indexes holding the id, with the
\* log-probability of that index and the rank of that index: the
\* distinguished rank for index 0, i for index i >= 1.
C15_ZipShortest ==
    op = "_make_logprob_dict" =>
        /\ DOMAIN ret = {LastArg.ids[i] : i \in 1..Used(LastArg)}
        /\ \A i \in 1..Used(LastArg) :
              (\A j \in (i + 1)..Used(LastArg) : LastArg.ids[j] # LastArg.ids[i])
              => ret[LastArg.ids[i]] =
                    Logprob(LastArg.lps[i],
                            IF i = 1 THEN LastArg.rank ELSE i - 1,
                            IF LastArg.decoded THEN Some(Vocab[LastArg.ids[i]])
                            ELSE None)

C15_Witness ==
    /\ op = "_make_logprob_dict"
    /\ LastArg.nlp = 1
    /\ Len(LastArg.ids) = 3
    /\ Len(LastArg.lps) = 3
    /\ LastArg.ids[1] # LastArg.ids[2]
    /\ LastArg.rank # 1
    /\ Cardinality(DOMAIN ret) = 2


\* A step that carries the one token t.
SingleStep(t) ==
    [token_ids |-> <<t.ids>>, logprobs |-> <<t.lps>>, ranks |-> <<t.rank>>]

\* The processor as it was constructed: the sample side of the current
\* configuration with nothing processed.
Fresh ==
    [Self EXCEPT
        !.logprobs = Some(<<>>),
        !.cumulative_logprob = Some(0),
        !.conf_list = IF @ = None THEN None ELSE Some(<<>>),
        !.conf_group_list = IF @ = None THEN None
                            ELSE Some(deque(conf_group_size)),
        !.conf_grouped = 0]

\* The processor after one single-token sample update per token, oldest
\* first.
RECURSIVE Replay(_, _, _)
Replay(self, tokens, i) ==
    IF i > Len(tokens) THEN self
    ELSE Replay(_update_sample_logprobs(self, SingleStep(tokens[i])).self,
                tokens, i + 1)

\* C16: whatever way the processed tokens were grouped into steps, the
\* processor (logprobs, cumulative_logprob, confidence history, window and
\* running sum), and with it the stop query, is as after one single-token
\* update per token in the same order.
C16_MultiTokenStepIsSequence ==
    logprobs # None =>
        /\ Self = Replay(Fresh, fed, 1)
        /\ conf_stop(Self) = conf_stop(Replay(Fresh, fed, 1))

C16_Witness ==
    /\ op = "update_from_output"
    /\ err = "none"
    /\ sample_calls >= 1
    /\ sample_calls < Len(fed)
    /\ conf_list # None
    /\ Len(fed) > conf_group_size
    /\ fed[1] # fed[2]

\* C17: the history has one value per position record of logprobs: 0 for a
\* token with one entry, else the negated mean of the entries after index 0
\* (times ConfScale); a sample update without prompt data raises nothing;
\* the window is the last min(n, W) values of the history, oldest first.
C17_HistoryAndWindow ==
    (conf_list # None /\ logprobs # None) =>
        /\ Len(Val(conf_list)) = Len(Val(logprobs))
        /\ Len(Val(conf_list)) = Len(fed)
        /\ \A i \in 1..Len(fed) :
              IF Len(fed[i].lps) = 1
              THEN Val(conf_list)[i] = 0
              ELSE Val(conf_list)[i] * (Len(fed[i].lps) - 1)
                      = -SumSeq(Tail(fed[i].lps)) * ConfScale
        /\ Window = LastN(Val(conf_list),
                          Min2(Len(Val(conf_list)), conf_group_size))
        /\ (/\ op = "update_from_output"
            /\ LastArg.new_prompt_logprobs_tensors = None) => err = "none"

C17_Witness ==
    /\ op = "update_from_output"
    /\ conf_list # None
    /\ Len(Val(conf_list)) > conf_group_size
    /\ \E i \in 1..Len(fed) : Len(fed[i].lps) = 1 /\ Val(conf_list)[i] = 0
    /\ \E i \in 1..Len(fed) : Len(fed[i].lps) > 1 /\ Val(conf_list)[i] > 0


\* C18: after a drain of a processor with prompt logprobs the returned list
\* is not the list the processor goes on appending to.
C18_DrainedIsForgotten ==
    (op = "pop_prompt_logprobs" /\ prompt_logprobs # None)
    => ret # prompt_logprobs

\* The sample side of the processor.
SampleSide ==
    <<logprobs, cumulative_logprob, num_logprobs, conf_list, conf_group_list,
      conf_grouped, conf_group_size, conf_threshold>>

\* C19: a drain, and an update without sample data, leave the sample side
\* unchanged; an update leaves prompt_logprobs unchanged, and without prompt
\* data the lists too; an update with neither leaves the whole state
\* unchanged and raises nothing.
C19_SidesAreIndependent ==
    [][/\ op' = "pop_prompt_logprobs" => SampleSide' = SampleSide
       /\ op' = "update_from_output" =>
             /\ prompt_logprobs' = prompt_logprobs
             /\ num_prompt_logprobs' = num_prompt_logprobs
             /\ Val(arg').new_logprobs = None => SampleSide' = SampleSide
             /\ Val(arg').new_prompt_logprobs_tensors = None => heap' = heap
             /\ (/\ Val(arg').new_logprobs = None
                 /\ Val(arg').new_prompt_logprobs_tensors = None)
                => (fields' = fields /\ heap' = heap /\ err' = "none")]_vars

C19_Witness ==
    /\ op = "update_from_output"
    /\ err = "none"
    /\ LastArg.new_logprobs = None
    /\ LastArg.new_prompt_logprobs_tensors # None
    /\ Val(LastArg.new_prompt_logprobs_tensors) >= 1
    /\ logprobs # None
    /\ Len(Val(logprobs)) >= 1
    /\ conf_list # None
    /\ Len(Val(conf_list)) >= 1

\* The tokens the last step added to the processed ones.
NewTokens(before, after) == SubSeq(after, Len(before) + 1, Len(after))

\* C20: a step with sample and prompt data, sample logprobs on and prompt
\* logprobs off, raises AssertionError with the step's tokens processed:
\* logprobs, cumulative_logprob, the confidence history and the window have
\* advanced; a step with sample data and sample logprobs off raises
\* AssertionError with the fields and the lists unchanged.
C20_SampleFirstNotAtomic ==
    [][(op' = "update_from_output" /\ Val(arg').new_logprobs # None) =>
         /\ num_logprobs = None =>
               (err' = "AssertionError" /\ fields' = fields /\ heap' = heap)
         /\ (/\ num_logprobs # None
             /\ Val(arg').new_prompt_logprobs_tensors # None
             /\ num_prompt_logprobs = None) =>
               LET new == NewTokens(fed, fed')
               IN  /\ err' = "AssertionError"
                   /\ Len(new) = Val(Val(arg').new_logprobs).tokens
                   /\ Len(new) >= 1
                   /\ Len(Val(logprobs')) = Len(Val(logprobs)) + Len(new)
                   /\ SubSeq(Val(logprobs'), 1, Len(Val(logprobs))) = Val(logprobs)
                   /\ Val(cumulative_logprob') =
                         Val(cumulative_logprob)
                           + SumSeq([i \in 1..Len(new) |-> new[i].lps[1]])
                   /\ conf_list # None =>
                         /\ Val(conf_list') =
                               Val(conf_list)
                                 \o [i \in 1..Len(new) |-> new_conf(new[i].lps)]
                         /\ Val(conf_group_list').items =
                               LastN(Val(conf_list'),
                                     Min2(Len(Val(conf_list')), conf_group_size))
                         /\ conf_grouped' = SumSeq(Val(conf_group_list').items)
                   /\ prompt_logprobs' = None
                   /\ heap' = heap]_vars

C20_Witness ==
    /\ op = "update_from_output"
    /\ err = "AssertionError"
    /\ LastArg.new_logprobs # None
    /\ Val(LastArg.new_logprobs).tokens >= 1
    /\ LastArg.new_prompt_logprobs_tensors # None
    /\ num_logprobs # None
    /\ num_prompt_logprobs = None
    /\ conf_list # None
    /\ Len(Val(conf_list)) >= 2
    /\ Len(Val(logprobs)) = Len(fed)

====
